---- MODULE Spec2Model ----
(***************************************************************************)
(* The Lox scanner (src/src/scanner.rs), the token record                  *)
(* (src/src/token.rs) and the driver Lox::run (src/src/lib.rs).            *)
(*                                                                         *)
(* The source text is a Rust String: valid UTF-8, held as a sequence of    *)
(* bytes.  An ASCII byte is the one-character string of its character; the *)
(* two bytes of the character U+00E9 are written "C3" and "A9".  The       *)
(* cursors start and current are byte offsets counted from 0, as in the    *)
(* code, so the byte at offset i is source[i + 1].                         *)
(***************************************************************************)
EXTENDS Integers, Sequences, FiniteSets, TLC

\* ---------------------------------------------------------------- bounds

\* longest source, in characters, over the ASCII alphabet
MaxLen == 3
\* longest source, in characters, over the alphabet with a two-byte character
MaxWideLen == 4
\* longest run of word characters appended to a reserved word
MaxSuffix == 2
\* longest source over the number alphabet
MaxNumLen == 4

\* ------------------------------------------------------------ characters

NUL == "NUL"
LeadByte == "C3"
ContByte == "A9"
WideChar == "U+00E9"

Digits == <<"0", "1", "2", "3", "4", "5", "6", "7", "8", "9">>

Lower ==
    {"a", "b", "c", "d", "e", "f", "g", "h", "i", "j", "k", "l", "m",
     "n", "o", "p", "q", "r", "s", "t", "u", "v", "w", "x", "y", "z"}

Upper == {"A", "B", "X", "Z"}

is_digit(c) == \E i \in 1..10 : Digits[i] = c

is_alpha(c) == c \in Lower \/ c \in Upper \/ c = "_"

is_alpha_numeric(c) == is_alpha(c) \/ is_digit(c)

\* `u8 as char`: a byte below 0x80 is its ASCII character, a byte from 0x80
\* up is the Latin-1 character of the same number, never the character the
\* byte is a part of.
ByteAsChar(b) ==
    IF b = LeadByte THEN "U+00C3" ELSE IF b = ContByte THEN "U+00A9" ELSE b

\* str::is_char_boundary: offset i of src is the start of a character or the
\* end of the text.
is_char_boundary(src, i) ==
    \/ i = 0
    \/ i = Len(src)
    \/ (i > 0 /\ i < Len(src) /\ src[i + 1] # ContByte)

\* &src[a..b] succeeds (does not panic) exactly when a <= b <= len and both
\* offsets are character boundaries.
SliceOk(src, a, b) ==
    /\ a <= b
    /\ b <= Len(src)
    /\ is_char_boundary(src, a)
    /\ is_char_boundary(src, b)

Slice(src, a, b) == SubSeq(src, a + 1, b)

\* The UTF-8 encoding of a sequence of characters.
RECURSIVE Encode(_)
Encode(cs) ==
    IF cs = <<>> THEN <<>>
    ELSE (IF Head(cs) = WideChar THEN <<LeadByte, ContByte>> ELSE <<Head(cs)>>)
         \o Encode(Tail(cs))

\* src.chars(): the characters of the text, decoded from its bytes.
RECURSIVE CharsFrom(_, _)
CharsFrom(src, i) ==
    IF i >= Len(src) THEN <<>>
    ELSE IF src[i + 1] = LeadByte
         THEN <<WideChar>> \o CharsFrom(src, i + 2)
         ELSE <<src[i + 1]>> \o CharsFrom(src, i + 1)

Chars(src) == CharsFrom(src, 0)

\* src.chars().nth(n): the n-th character counted from 0, None past the end.
NONE == "None"

chars_nth(src, n) ==
    LET cs == Chars(src) IN IF n < Len(cs) THEN cs[n + 1] ELSE NONE

\* ----------------------------------------------------------- token kinds

KeywordTable ==
    { [word |-> <<"a", "n", "d">>, kind |-> "AND"],
      [word |-> <<"c", "l", "a", "s", "s">>, kind |-> "CLASS"],
      [word |-> <<"e", "l", "s", "e">>, kind |-> "ELSE"],
      [word |-> <<"f", "a", "l", "s", "e">>, kind |-> "FALSE"],
      [word |-> <<"f", "o", "r">>, kind |-> "FOR"],
      [word |-> <<"f", "u", "n">>, kind |-> "FUN"],
      [word |-> <<"i", "f">>, kind |-> "IF"],
      [word |-> <<"n", "i", "l">>, kind |-> "NIL"],
      [word |-> <<"o", "r">>, kind |-> "OR"],
      [word |-> <<"p", "r", "i", "n", "t">>, kind |-> "PRINT"],
      [word |-> <<"r", "e", "t", "u", "r", "n">>, kind |-> "RETURN"],
      [word |-> <<"s", "u", "p", "e", "r">>, kind |-> "SUPER"],
      [word |-> <<"t", "h", "i", "s">>, kind |-> "THIS"],
      [word |-> <<"t", "r", "u", "e">>, kind |-> "TRUE"],
      [word |-> <<"v", "a", "r">>, kind |-> "VAR"],
      [word |-> <<"w", "h", "i", "l", "e">>, kind |-> "WHILE"] }

KeywordKinds == {k.kind : k \in KeywordTable}

\* self.keywords.get(text).copied().unwrap_or(IDENTIFIER)
keywords_get(text) ==
    IF \E k \in KeywordTable : k.word = text
    THEN (CHOOSE k \in KeywordTable : k.word = text).kind
    ELSE "IDENTIFIER"

\* The kind of a single-character token, for the characters of
\* scan_token's first ten arms.
PunctChars == {"(", ")", "{", "}", ",", ".", "-", "+", ";", "*"}

PunctKind(c) ==
    CASE c = "(" -> "LEFT_PAREN"
      [] c = ")" -> "RIGHT_PAREN"
      [] c = "{" -> "LEFT_BRACE"
      [] c = "}" -> "RIGHT_BRACE"
      [] c = "," -> "COMMA"
      [] c = "." -> "DOT"
      [] c = "-" -> "MINUS"
      [] c = "+" -> "PLUS"
      [] c = ";" -> "SEMICOLON"
      [] c = "*" -> "STAR"

OperatorChars == {"!", "=", "<", ">"}

SingleKind(c) ==
    CASE c = "!" -> "BANG"
      [] c = "=" -> "EQUAL"
      [] c = "<" -> "LESS"
      [] c = ">" -> "GREATER"

CompoundKind(c) ==
    CASE c = "!" -> "BANG_EQUAL"
      [] c = "=" -> "EQUAL_EQUAL"
      [] c = "<" -> "LESS_EQUAL"
      [] c = ">" -> "GREATER_EQUAL"

BlankChars == {" ", "\r", "\t"}

\* ---------------------------------------------------- numbers and rendering

DigitVal(c) == (CHOOSE i \in 1..10 : Digits[i] = c) - 1

RECURSIVE IntVal(_)
IntVal(ds) ==
    IF ds = <<>> THEN 0
    ELSE 10 * IntVal(SubSeq(ds, 1, Len(ds) - 1)) + DigitVal(ds[Len(ds)])

RECURSIVE NatToChars(_)
NatToChars(n) ==
    IF n < 10 THEN <<Digits[n + 1]>>
    ELSE NatToChars(n \div 10) \o <<Digits[(n % 10) + 1]>>

RECURSIVE StripZeros(_)
StripZeros(ds) ==
    IF ds # <<>> /\ ds[Len(ds)] = "0"
    THEN StripZeros(SubSeq(ds, 1, Len(ds) - 1))
    ELSE ds

AllDigits(ds) == \A i \in 1..Len(ds) : is_digit(ds[i])

DotAt(lex) ==
    IF \E i \in 1..Len(lex) : lex[i] = "."
    THEN CHOOSE i \in 1..Len(lex) : lex[i] = "." /\ \A j \in 1..(i - 1) : lex[j] # "."
    ELSE 0

\* <f64 as FromStr>::from_str on the texts the scanner can hand it (they
\* start with a digit): Ok for digits, and for digits '.' digits with the
\* second run possibly empty; Err otherwise, e.g. for two dots.
ParseOk(lex) ==
    LET d == DotAt(lex) IN
    IF d = 0 THEN lex # <<>> /\ AllDigits(lex)
    ELSE /\ d > 1
         /\ AllDigits(SubSeq(lex, 1, d - 1))
         /\ AllDigits(SubSeq(lex, d + 1, Len(lex)))

\* The parsed f64, held as its shortest decimal form: the integer part and
\* the fractional digits without trailing zeros.  Within MaxNumLen digits
\* the nearest f64 prints back as exactly this decimal.
ParseF64(lex) ==
    LET d == DotAt(lex) IN
    IF d = 0 THEN [ip |-> IntVal(lex), fr |-> <<>>]
    ELSE [ip |-> IntVal(SubSeq(lex, 1, d - 1)),
          fr |-> StripZeros(SubSeq(lex, d + 1, Len(lex)))]

\* <f64 as Display> without a precision: the shortest decimal form; an
\* integral value prints without a fractional part.
F64ToString(v) ==
    IF v.fr = <<>> THEN NatToChars(v.ip)
    ELSE NatToChars(v.ip) \o <<".">> \o v.fr

RECURSIVE BitLen(_)
BitLen(n) == IF n = 0 THEN 0 ELSE 1 + BitLen(n \div 2)

\* The remainder of f * 2^k modulo 100.
RECURSIVE Rem100(_, _)
Rem100(f, k) == IF k = 0 THEN f % 100 ELSE (2 * Rem100(f, k - 1)) % 100

\* The number of zero bits that open the binary expansion of f / 100, for
\* 0 < f < 100.
RECURSIVE LeadingZeroBits(_)
LeadingZeroBits(f) == IF 2 * f >= 100 THEN 0 ELSE 1 + LeadingZeroBits(2 * f)

\* A value ip + (10 * d1 + 5) / 100 lies, in decimal, exactly half way
\* between two one-digit roundings; format!("{:.1}") rounds the f64, not the
\* decimal.  The f64 keeps 53 significant bits; the part dropped from the
\* decimal is Rem100 / 100 of the last kept bit, so the f64 is above the
\* decimal when that is more than one half, below when it is less, and the
\* decimal itself when it is 0 (then the tie goes to the even digit).
TieRoundsUp(ip, d1) ==
    LET f == 10 * d1 + 5
        k == IF ip > 0 THEN 53 - BitLen(ip) ELSE 53 + LeadingZeroBits(f)
        r == Rem100(f, k)
    IN  IF r = 0 THEN d1 % 2 = 1 ELSE r > 50

\* format!("{:.1}", f64): the value rounded to one fractional digit.
F64Fmt1(v) ==
    LET d1 == IF v.fr = <<>> THEN 0 ELSE DigitVal(v.fr[1])
        rest == IF v.fr = <<>> THEN <<>> ELSE Tail(v.fr)
        up == IF rest = <<>> THEN FALSE
              ELSE IF DigitVal(rest[1]) > 5 THEN TRUE
              ELSE IF DigitVal(rest[1]) < 5 THEN FALSE
              ELSE IF Len(rest) > 1 THEN TRUE
              ELSE TieRoundsUp(v.ip, d1)
        tenths == 10 * v.ip + d1 + (IF up THEN 1 ELSE 0)
    IN  NatToChars(tenths \div 10) \o <<".", Digits[(tenths % 10) + 1]>>

\* format!("{:.1}", String): a precision truncates a string to that many
\* characters.
StrFmt1(s) ==
    IF s = <<>> THEN <<>>
    ELSE IF s[1] = LeadByte THEN SubSeq(s, 1, 2) ELSE <<s[1]>>

EndsWithDotZero(s) ==
    Len(s) >= 2 /\ s[Len(s) - 1] = "." /\ s[Len(s)] = "0"

\* with_decimal::<f64>
with_decimal_f64(v) ==
    LET formatted == F64Fmt1(v) IN
    IF EndsWithDotZero(formatted) THEN formatted ELSE F64ToString(v)

\* with_decimal::<String>
with_decimal_str(s) ==
    LET formatted == StrFmt1(s) IN
    IF EndsWithDotZero(formatted) THEN formatted ELSE s

\* ------------------------------------------------------------------ state

VARIABLES
    source,     \* Scanner.source, as bytes
    tokens,     \* Scanner.tokens
    tokstart,   \* history: tokstart[i] is the value of start when tokens[i] was pushed
    start,      \* Scanner.start
    current,    \* Scanner.current
    line,       \* Scanner.line
    has_error,  \* Scanner.has_error
    diags,      \* the lines the scanner wrote to stderr
    pc,         \* where the run is: in which loop of the scanner, or after it
    had_error,  \* Lox.had_error
    out,        \* the lines the current call of Lox::run wrote to stdout
    history     \* history: what each finished call of Lox::run scanned and got

scannerVars == <<source, tokens, tokstart, start, current, line, has_error, diags>>

loxVars == <<had_error, out, history>>

vars == <<source, tokens, tokstart, start, current, line, has_error, diags, pc,
          had_error, out, history>>

\* ----------------------------------------------------------------- inputs

RECURSIVE SeqsOfLen(_, _)
SeqsOfLen(S, n) ==
    IF n = 0 THEN {<<>>}
    ELSE {Append(s, c) : s \in SeqsOfLen(S, n - 1), c \in S}

SeqsUpTo(S, n) == UNION {SeqsOfLen(S, k) : k \in 0..n}

AsciiAlphabet == {"(", "!", "=", "/", " ", "\n", "\"", "o", "r", "1", ".", "@"}

WideAlphabet == {WideChar, "!", "=", "\n", "o", "r", "\""}

SuffixAlphabet == {"s", "_", "1"}

NumAlphabet == {"0", "4", "9", ".", "r"}

AsciiSources == SeqsUpTo(AsciiAlphabet, MaxLen)

WideSources == {Encode(cs) : cs \in SeqsUpTo(WideAlphabet, MaxWideLen)}

KeywordSources ==
    {k.word \o sfx : k \in KeywordTable, sfx \in SeqsUpTo(SuffixAlphabet, MaxSuffix)}

NumSources == SeqsUpTo(NumAlphabet, MaxNumLen)

\* The other characters of the grammar, alone and before '=', the examples
\* of the specification's section 8, and a slash after a two-byte character.
SampleSources ==
    {<<c>> : c \in PunctChars \cup OperatorChars \cup BlankChars \cup {"X", "_"}}
    \cup {<<c, d>> : c \in OperatorChars, d \in {"=", "x", "("}}
    \cup { <<"/", "/", " ", "c", "\n", "1", "2", "3">>,
           <<"1", "2", "3", ".", "4", "5", "6">>,
           <<"1", ".", "0", "4">>,
           <<"0", ".", "9", "6">>,
           <<"1", ".", "5", ".", "x">>,
           <<"\"", "a", "b", "c">>,
           <<"\"", "a", "\n", "b", "\"", " ", "x">>,
           <<"a", "n", "d", "r", "o", "i", "d">>,
           <<"o", "r", "c", "h", "i", "d">>,
           <<"f", "o", "r", "m", "a", "t">>,
           <<LeadByte, ContByte, "/", "/">>,
           <<LeadByte, ContByte, "/", "x", "/">>,
           <<LeadByte, ContByte, "/", "/", "\n", "@">> }

Sources ==
    AsciiSources \cup WideSources \cup KeywordSources \cup NumSources
    \cup SampleSources

\* ------------------------------------------------------------- the scanner

\* build_lox() and, in Lox::run, build_scanner(source)
Init ==
    /\ source \in Sources
    /\ tokens = <<>>
    /\ tokstart = <<>>
    /\ start = 0
    /\ current = 0
    /\ line = 1
    /\ has_error = FALSE
    /\ diags = <<>>
    /\ pc = "outer"
    /\ had_error = FALSE
    /\ out = <<>>
    /\ history = <<>>

is_at_end(src, cur) == cur >= Len(src)

peek(src, cur) == IF is_at_end(src, cur) THEN NUL ELSE ByteAsChar(src[cur + 1])

peek_next(src, cur) ==
    IF cur + 1 >= Len(src) THEN NUL ELSE ByteAsChar(src[cur + 2])

\* match_char: the comparison reads the character at CHARACTER index cur
\* (chars().nth), and unwrap panics when the text has fewer characters.
match_char(src, cur, expected) ==
    IF is_at_end(src, cur)
    THEN [panic |-> FALSE, matched |-> FALSE, current |-> cur]
    ELSE IF chars_nth(src, cur) = NONE
    THEN [panic |-> TRUE, matched |-> FALSE, current |-> cur]
    ELSE IF chars_nth(src, cur) # expected
    THEN [panic |-> FALSE, matched |-> FALSE, current |-> cur]
    ELSE [panic |-> FALSE, matched |-> TRUE, current |-> cur + 1]

Token(kind, lexeme, literal, ln) ==
    [token_type |-> kind, lexeme |-> lexeme, literal |-> literal, line |-> ln]

\* add_token_literal with start = st and current = cur: the slice
\* add_token_literal taking the text one byte short
add_token_literal_short(kind, literal, st, cur, next) ==
    IF SliceOk(source, st, cur)
    THEN /\ tokens' = Append(tokens, Token(kind, Slice(source, st, cur - 1), literal, line))
         /\ tokstart' = Append(tokstart, st)
         /\ pc' = next
    ELSE /\ pc' = "panic"
         /\ UNCHANGED <<tokens, tokstart>>

\* source[st..cur] panics off a character boundary; otherwise the token is
\* pushed and the run goes on at `next`.
add_token_literal(kind, literal, st, cur, next) ==
    IF SliceOk(source, st, cur)
    THEN /\ tokens' = Append(tokens, Token(kind, Slice(source, st, cur), literal, line))
         /\ tokstart' = Append(tokstart, st)
         /\ pc' = next
    ELSE /\ pc' = "panic"
         /\ UNCHANGED <<tokens, tokstart>>

\* add_token: with_decimal is not called for None, the literal is "".
add_token(kind, st, cur, next) == add_token_literal(kind, <<>>, st, cur, next)

\* The byte scan_token reads, as a char.
CurrentChar == ByteAsChar(source[current + 1])

AtTokenStart == pc = "outer" /\ ~is_at_end(source, current)

\* scan_token, arms '(' to '*': one single-character token.
ScanPunct ==
    /\ AtTokenStart
    /\ CurrentChar \in PunctChars
    /\ start' = current
    /\ current' = current + 1
    /\ add_token(PunctKind(CurrentChar), current, current + 1, "outer")
    /\ UNCHANGED <<source, line, has_error, diags, had_error, out, history>>

\* scan_token, arms '!', '=', '<', '>': match_char('=') chooses the kind.
ScanOperator ==
    /\ AtTokenStart
    /\ CurrentChar \in OperatorChars
    /\ start' = current
    /\ LET m == match_char(source, current + 1, "=") IN
        IF m.panic
        THEN /\ current' = current + 1
             /\ pc' = "panic"
             /\ UNCHANGED <<tokens, tokstart>>
        ELSE /\ current' = m.current
             /\ add_token(IF m.matched THEN CompoundKind(CurrentChar)
                                     ELSE SingleKind(CurrentChar),
                          current, m.current, "outer")
    /\ UNCHANGED <<source, line, has_error, diags, had_error, out, history>>

\* scan_token, arm '/': a second '/' opens a line comment, else SLASH.
ScanSlash ==
    /\ AtTokenStart
    /\ CurrentChar = "/"
    /\ start' = current
    /\ LET m == match_char(source, current + 1, "/") IN
        IF m.panic
        THEN /\ current' = current + 1
             /\ pc' = "panic"
             /\ UNCHANGED <<tokens, tokstart>>
        ELSE IF m.matched
        THEN /\ current' = m.current
             /\ pc' = "comment"
             /\ UNCHANGED <<tokens, tokstart>>
        ELSE /\ current' = m.current
             /\ add_token("SLASH", current, m.current, "outer")
    /\ UNCHANGED <<source, line, has_error, diags, had_error, out, history>>

\* the loop of the '/' arm: while self.peek() != '\n' && !self.is_at_end()
CommentLoopCond == peek(source, current) # "\n" /\ ~is_at_end(source, current)

CommentAdvance ==
    /\ pc = "comment"
    /\ CommentLoopCond
    /\ current' = current + 1
    /\ UNCHANGED <<source, tokens, tokstart, start, line, has_error, diags, pc,
                   had_error, out, history>>

CommentEnd ==
    /\ pc = "comment"
    /\ ~CommentLoopCond
    /\ pc' = "outer"
    /\ UNCHANGED <<scannerVars, loxVars>>

\* scan_token, arm ' ' | '\r' | '\t'
ScanBlank ==
    /\ AtTokenStart
    /\ CurrentChar \in BlankChars
    /\ start' = current
    /\ current' = current + 1
    /\ UNCHANGED <<source, tokens, tokstart, line, has_error, diags, pc,
                   had_error, out, history>>

\* scan_token, arm '\n'
ScanNewline ==
    /\ AtTokenStart
    /\ CurrentChar = "\n"
    /\ start' = current
    /\ current' = current + 1
    /\ line' = line + 1
    /\ UNCHANGED <<source, tokens, tokstart, has_error, diags, pc, had_error, out, history>>

\* scan_token, arm '"': enters string()
ScanQuote ==
    /\ AtTokenStart
    /\ CurrentChar = "\""
    /\ start' = current
    /\ current' = current + 1
    /\ pc' = "string"
    /\ UNCHANGED <<source, tokens, tokstart, line, has_error, diags, had_error, out, history>>

\* scan_token, arm 'o': OR when match_char('r'), and nothing otherwise.
ScanO ==
    /\ AtTokenStart
    /\ CurrentChar = "o"
    /\ start' = current
    /\ LET m == match_char(source, current + 1, "r") IN
        IF m.panic
        THEN /\ current' = current + 1
             /\ pc' = "panic"
             /\ UNCHANGED <<tokens, tokstart>>
        ELSE IF m.matched
        THEN /\ current' = m.current
             /\ add_token("OR", current, m.current, "outer")
        ELSE /\ current' = m.current
             /\ UNCHANGED <<tokens, tokstart, pc>>
    /\ UNCHANGED <<source, line, has_error, diags, had_error, out, history>>

\* The characters that reach the default arm of scan_token.
InDefaultArm(c) ==
    /\ c \notin PunctChars \cup OperatorChars \cup BlankChars
    /\ c \notin {"/", "\n", "\"", "o"}

\* scan_token, default arm, is_digit(c): enters number()
ScanDigit ==
    /\ AtTokenStart
    /\ InDefaultArm(CurrentChar)
    /\ is_digit(CurrentChar)
    /\ start' = current
    /\ current' = current + 1
    /\ pc' = "number"
    /\ UNCHANGED <<source, tokens, tokstart, line, has_error, diags, had_error, out, history>>

\* scan_token, default arm, is_alpha(c): enters identifier()
ScanAlpha ==
    /\ AtTokenStart
    /\ InDefaultArm(CurrentChar)
    /\ ~is_digit(CurrentChar)
    /\ is_alpha(CurrentChar)
    /\ start' = current
    /\ current' = current + 1
    /\ pc' = "identifier"
    /\ UNCHANGED <<source, tokens, tokstart, line, has_error, diags, had_error, out, history>>

UnexpectedDiag(ln, c) == [line |-> ln, msg |-> "Unexpected character", ch |-> c]

UnterminatedDiag(ln) == [line |-> ln, msg |-> "Unterminated string.", ch |-> NUL]

\* the default arm reporting the character without setting the flag
ScanUnexpected_noflag ==
    /\ AtTokenStart
    /\ InDefaultArm(CurrentChar)
    /\ ~is_digit(CurrentChar)
    /\ ~is_alpha(CurrentChar)
    /\ start' = current
    /\ current' = current + 1
    /\ diags' = Append(diags, UnexpectedDiag(line, CurrentChar))
    /\ UNCHANGED <<source, tokens, tokstart, line, has_error, pc, had_error, out,
                   history>>

\* scan_token, default arm, else: the diagnostic and the flag, no token.
ScanUnexpected ==
    /\ AtTokenStart
    /\ InDefaultArm(CurrentChar)
    /\ ~is_digit(CurrentChar)
    /\ ~is_alpha(CurrentChar)
    /\ start' = current
    /\ current' = current + 1
    /\ diags' = Append(diags, UnexpectedDiag(line, CurrentChar))
    /\ has_error' = TRUE
    /\ UNCHANGED <<source, tokens, tokstart, line, pc, had_error, out, history>>

\* string(): while self.peek() != '"' && !self.is_at_end()
StringLoopCond == peek(source, current) # "\"" /\ ~is_at_end(source, current)

StringAdvance ==
    /\ pc = "string"
    /\ StringLoopCond
    /\ line' = IF peek(source, current) = "\n" THEN line + 1 ELSE line
    /\ current' = current + 1
    /\ UNCHANGED <<source, tokens, tokstart, start, has_error, diags, pc,
                   had_error, out, history>>

\* string() reporting the unterminated literal without setting the flag
StringUnterminated_noflag ==
    /\ pc = "string"
    /\ ~StringLoopCond
    /\ is_at_end(source, current)
    /\ diags' = Append(diags, UnterminatedDiag(line))
    /\ pc' = "outer"
    /\ UNCHANGED <<source, tokens, tokstart, start, current, line, has_error,
                   had_error, out, history>>

\* string(): the input ended inside the literal.
StringUnterminated ==
    /\ pc = "string"
    /\ ~StringLoopCond
    /\ is_at_end(source, current)
    /\ diags' = Append(diags, UnterminatedDiag(line))
    /\ has_error' = TRUE
    /\ pc' = "outer"
    /\ UNCHANGED <<source, tokens, tokstart, start, current, line, had_error, out, history>>

\* string(): the closing quote is consumed and the STRING token pushed.
StringClose ==
    /\ pc = "string"
    /\ ~StringLoopCond
    /\ ~is_at_end(source, current)
    /\ current' = current + 1
    /\ IF SliceOk(source, start + 1, current)
       THEN add_token_literal("STRING",
                with_decimal_str(Slice(source, start + 1, current)),
                start, current + 1, "outer")
       ELSE pc' = "panic" /\ UNCHANGED <<tokens, tokstart>>
    /\ UNCHANGED <<source, start, line, has_error, diags, had_error, out, history>>

\* number() without the look-ahead past the '.'
number_has_fraction_nolookahead(src, cur) == peek(src, cur) = "."

\* number(): the fractional part is scanned when a '.' is followed by a digit.
number_has_fraction(src, cur) == peek(src, cur) = "." /\ is_digit(peek_next(src, cur))

\* number(): the first loop, over the integer part.
NumberDigit ==
    /\ pc = "number"
    /\ is_digit(peek(source, current))
    /\ current' = current + 1
    /\ UNCHANGED <<source, tokens, tokstart, start, line, has_error, diags, pc,
                   had_error, out, history>>

\* number(): consume the '.'
NumberDot ==
    /\ pc = "number"
    /\ ~is_digit(peek(source, current))
    /\ number_has_fraction(source, current)
    /\ current' = current + 1
    /\ pc' = "fraction"
    /\ UNCHANGED <<source, tokens, tokstart, start, line, has_error, diags,
                   had_error, out, history>>

\* the second loop running over letters as well as digits
FractionDigit_alnum ==
    /\ pc = "fraction"
    /\ is_alpha_numeric(peek(source, current))
    /\ current' = current + 1
    /\ UNCHANGED <<source, tokens, tokstart, start, line, has_error, diags, pc,
                   had_error, out, history>>

\* number(): the second loop, over the fractional part.
FractionDigit ==
    /\ pc = "fraction"
    /\ is_digit(peek(source, current))
    /\ current' = current + 1
    /\ UNCHANGED <<source, tokens, tokstart, start, line, has_error, diags, pc,
                   had_error, out, history>>

\* number(): parse the lexeme (panic on Err) and push the NUMBER token.
NumberEmit ==
    /\ \/ /\ pc = "number"
          /\ ~is_digit(peek(source, current))
          /\ ~number_has_fraction(source, current)
       \/ /\ pc = "fraction"
          /\ ~is_digit(peek(source, current))
    /\ IF SliceOk(source, start, current) /\ ParseOk(Slice(source, start, current))
       THEN add_token_literal("NUMBER",
                with_decimal_f64(ParseF64(Slice(source, start, current))),
                start, current, "outer")
       ELSE pc' = "panic" /\ UNCHANGED <<tokens, tokstart>>
    /\ UNCHANGED <<source, start, current, line, has_error, diags, had_error, out, history>>

\* identifier(): while is_alpha_numeric(self.peek())
IdentifierAdvance ==
    /\ pc = "identifier"
    /\ is_alpha_numeric(peek(source, current))
    /\ current' = current + 1
    /\ UNCHANGED <<source, tokens, tokstart, start, line, has_error, diags, pc,
                   had_error, out, history>>

\* identifier(): look the lexeme up in the keyword table and push the token.
IdentifierEmit ==
    /\ pc = "identifier"
    /\ ~is_alpha_numeric(peek(source, current))
    /\ IF SliceOk(source, start, current)
       THEN add_token(keywords_get(Slice(source, start, current)),
                      start, current, "outer")
       ELSE pc' = "panic" /\ UNCHANGED <<tokens, tokstart>>
    /\ UNCHANGED <<source, start, current, line, has_error, diags, had_error, out, history>>

\* scan_tokens: the loop has ended, push EOF and return the tokens.
ScanTokensReturn ==
    /\ pc = "outer"
    /\ is_at_end(source, current)
    /\ tokens' = Append(tokens, Token("EOF", <<>>, <<>>, line))
    /\ tokstart' = Append(tokstart, current)
    /\ pc' = "returned"
    /\ UNCHANGED <<source, start, current, line, has_error, diags, had_error, out, history>>

\* ------------------------------------------------------ the text dump

NullText == <<"n", "u", "l", "l">>

\* Token::to_string: the third field.
LiteralField(t) == IF t.literal = <<>> THEN NullText ELSE t.literal

\* Token::to_string: format!("{:?} {} {}", token_type, lexeme, literal)
to_string(t) == <<t.token_type, " ">> \o t.lexeme \o <<" ">> \o LiteralField(t)

\* println!("EOF  null")
EofLine == <<"EOF", " ", " ">> \o NullText

\* Lox::run after scan_tokens: one line per token, the error flag, and the
\* closing line.
LoxRunPrint ==
    /\ pc = "returned"
    /\ out' = [i \in 1..Len(tokens) |-> to_string(tokens[i])] \o <<EofLine>>
    /\ had_error' = (had_error \/ has_error)
    /\ history' = Append(history, [source |-> source, tokens |-> tokens,
                                   has_error |-> has_error])
    /\ pc' = "done"
    /\ UNCHANGED scannerVars

Next ==
    \/ ScanPunct
    \/ ScanOperator
    \/ ScanSlash
    \/ CommentAdvance
    \/ CommentEnd
    \/ ScanBlank
    \/ ScanNewline
    \/ ScanQuote
    \/ ScanO
    \/ ScanDigit
    \/ ScanAlpha
    \/ ScanUnexpected
    \/ StringAdvance
    \/ StringUnterminated
    \/ StringClose
    \/ NumberDigit
    \/ NumberDot
    \/ FractionDigit
    \/ NumberEmit
    \/ IdentifierAdvance
    \/ IdentifierEmit
    \/ ScanTokensReturn
    \/ LoxRunPrint

Spec == Init /\ [][Next]_vars

\* ------------------------------------------- several calls of Lox::run

\* the number of calls of Lox::run on one Lox value
MaxRuns == 2

\* The sources of the runs with several calls: every arm and loop of the
\* scanner, with and without a lexical error.
RunSources ==
    { <<>>,
      <<"(">>,
      <<"!", "=">>,
      <<"/", "/", "c", "\n", "/">>,
      <<" ">>,
      <<"\"", "a", "\"">>,
      <<"\"", "a">>,
      <<"o", "r">>,
      <<"1", "4", ".", "4">>,
      <<"a", "b">>,
      <<"@">>,
      <<"\n", "@", "x">>,
      <<LeadByte, ContByte, "=", "=">> }

InitRuns ==
    /\ source \in RunSources
    /\ tokens = <<>>
    /\ tokstart = <<>>
    /\ start = 0
    /\ current = 0
    /\ line = 1
    /\ has_error = FALSE
    /\ diags = <<>>
    /\ pc = "outer"
    /\ had_error = FALSE
    /\ out = <<>>
    /\ history = <<>>

\* Lox::run called again on a Lox whose line counter would outlive the scanner
LoxRunAgain_keepline ==
    /\ pc = "done"
    /\ Len(history) < MaxRuns
    /\ source' \in RunSources
    /\ tokens' = <<>>
    /\ tokstart' = <<>>
    /\ start' = 0
    /\ current' = 0
    /\ has_error' = FALSE
    /\ diags' = <<>>
    /\ pc' = "outer"
    /\ out' = <<>>
    /\ UNCHANGED <<line, had_error, history>>

\* Lox::run called again on the same Lox value: build_scanner makes a fresh
\* Scanner for the new source; Lox.had_error is left as it is.
LoxRunAgain ==
    /\ pc = "done"
    /\ Len(history) < MaxRuns
    /\ source' \in RunSources
    /\ tokens' = <<>>
    /\ tokstart' = <<>>
    /\ start' = 0
    /\ current' = 0
    /\ line' = 1
    /\ has_error' = FALSE
    /\ diags' = <<>>
    /\ pc' = "outer"
    /\ out' = <<>>
    /\ UNCHANGED <<had_error, history>>

NextRuns == Next \/ LoxRunAgain

SpecRuns == InitRuns /\ [][NextRuns]_vars

\* ----------------------------------------------------------------- claims

\* The number of newline bytes in source[0, pos).
NewlinesBefore(pos) == Cardinality({i \in 1..pos : source[i] = "\n"})

\* The offset just past tokens[i] in the source.
TokenEnd(i) == tokstart[i] + Len(tokens[i].lexeme)

Returned == pc \in {"returned", "done"}

UnexpectedDiags == {i \in 1..Len(diags) : diags[i].msg = "Unexpected character"}

UnterminatedDiags == {i \in 1..Len(diags) : diags[i].msg = "Unterminated string."}

\* C1: for every source text, multi-byte characters included, scan_tokens
\* runs to completion and never aborts (no panic, no index out of range).
C1_ScanRunsToCompletion == pc # "panic"

\* C2: the line of every token, STRING tokens over several lines included,
\* is 1 plus the number of newlines before the token's first character.
C2_TokenLine ==
    \A i \in 1..Len(tokens) : tokens[i].line = 1 + NewlinesBefore(tokstart[i])

IsProperPrefix(p, w) == Len(p) < Len(w) /\ SubSeq(w, 1, Len(p)) = p

IsWord(w) ==
    /\ w # <<>>
    /\ is_alpha(w[1])
    /\ \A i \in 1..Len(w) : is_alpha_numeric(w[i])

\* C3: a keyword token is the whole of a maximal run of word characters and
\* that run is the reserved word of its kind; a source that is one word with
\* a reserved word as a proper prefix gives one IDENTIFIER token.
C3_KeywordExactMatch ==
    /\ \A i \in 1..Len(tokens) :
        tokens[i].token_type \in KeywordKinds =>
            /\ \E k \in KeywordTable :
                k.kind = tokens[i].token_type /\ k.word = tokens[i].lexeme
            /\ TokenEnd(i) < Len(source) =>
                ~is_alpha_numeric(ByteAsChar(source[TokenEnd(i) + 1]))
    /\ ( /\ Returned
         /\ IsWord(source)
         /\ \E k \in KeywordTable : IsProperPrefix(k.word, source) )
       => /\ Len(tokens) = 2
          /\ tokens[1] = Token("IDENTIFIER", source, <<>>, 1)

\* C4: the returned list holds exactly one EOF token, the last one, with an
\* empty lexeme, on the final line: 1 plus the number of newlines of the
\* source.
C4_ExactlyOneEof ==
    Returned =>
        /\ tokens # <<>>
        /\ \A i \in 1..Len(tokens) :
            (tokens[i].token_type = "EOF") <=> (i = Len(tokens))
        /\ tokens[Len(tokens)].lexeme = <<>>
        /\ tokens[Len(tokens)].line = line
        /\ tokens[Len(tokens)].line = 1 + NewlinesBefore(Len(source))

\* C5: the literal of a NUMBER token is the integer digits and ".0" for an
\* integral value, and the ordinary decimal form, with every fractional
\* digit, for a value that is not integral.
C5_NumberRendering ==
    \A i \in 1..Len(tokens) :
        tokens[i].token_type = "NUMBER" =>
            LET v == ParseF64(tokens[i].lexeme) IN
            tokens[i].literal =
                IF v.fr = <<>> THEN NatToChars(v.ip) \o <<".", "0">>
                ELSE NatToChars(v.ip) \o <<".">> \o v.fr

\* C6: '!', '=', '<' or '>' at token start gives exactly one token: the
\* compound kind over two characters when the next character is '=', the
\* single kind over one character otherwise, the next character left alone.
C6_OperatorTokens ==
    [][ (AtTokenStart /\ CurrentChar \in OperatorChars) =>
            IF current + 1 < Len(source) /\ source[current + 2] = "="
            THEN /\ tokens' = Append(tokens,
                        Token(CompoundKind(CurrentChar), <<CurrentChar, "=">>, <<>>, line))
                 /\ current' = current + 2
            ELSE /\ tokens' = Append(tokens,
                        Token(SingleKind(CurrentChar), <<CurrentChar>>, <<>>, line))
                 /\ current' = current + 1 ]_vars

\* digits, or digits '.' digits
NumberShape(lex) ==
    LET d == DotAt(lex) IN
    IF d = 0 THEN lex # <<>> /\ AllDigits(lex)
    ELSE /\ d > 1
         /\ d < Len(lex)
         /\ AllDigits(SubSeq(lex, 1, d - 1))
         /\ AllDigits(SubSeq(lex, d + 1, Len(lex)))

\* C7: a NUMBER lexeme is digits or digits '.' digits; a '.' right after it
\* is not consumed by the number scan (after a bare digit run it is not
\* followed by a digit) and is emitted next, as a DOT token of its own.
C7_NumberDot ==
    \A i \in 1..Len(tokens) :
        tokens[i].token_type = "NUMBER" =>
            /\ NumberShape(tokens[i].lexeme)
            /\ (TokenEnd(i) < Len(source) /\ source[TokenEnd(i) + 1] = ".") =>
                /\ DotAt(tokens[i].lexeme) = 0 =>
                    \/ TokenEnd(i) + 1 = Len(source)
                    \/ ~is_digit(source[TokenEnd(i) + 2])
                /\ IF i < Len(tokens)
                   THEN /\ tokens[i + 1] = Token("DOT", <<".">>, <<>>, tokens[i].line)
                        /\ tokstart[i + 1] = TokenEnd(i)
                   ELSE pc = "outer" /\ current = TokenEnd(i)

\* C7, witness: a NUMBER with a fractional part, and the '.' after it
\* emitted as the next token.
C7_Witness ==
    /\ pc = "done"
    /\ \E i \in 1..(Len(tokens) - 1) :
        /\ tokens[i].token_type = "NUMBER"
        /\ DotAt(tokens[i].lexeme) > 0
        /\ tokens[i + 1].token_type = "DOT"
        /\ tokstart[i + 1] = TokenEnd(i)

\* C8: when string() reaches the end of input the flag is set, one
\* unterminated-string diagnostic carries the line counter's value, no token
\* is pushed for the literal, the tokens pushed before it stay, and the scan
\* completes with the EOF token.
C8_UnterminatedString ==
    /\ [](UnterminatedDiags # {} =>
            /\ has_error
            /\ Cardinality(UnterminatedDiags) = 1
            /\ current = Len(source)
            /\ source[start + 1] = "\""
            /\ \A i \in 1..Len(tokens) :
                tokens[i].token_type # "EOF" => TokenEnd(i) <= start
            /\ pc \in {"outer", "returned", "done"})
    /\ [][ /\ (pc = "string" /\ ~StringLoopCond /\ is_at_end(source, current)) =>
                /\ UnterminatedDiags = {}
                /\ diags' = Append(diags, UnterminatedDiag(line))
                /\ has_error'
                /\ line' = line
                /\ tokens' = tokens
           /\ (pc = "outer" /\ UnterminatedDiags # {}) =>
                /\ tokens' = Append(tokens, Token("EOF", <<>>, <<>>, line))
                /\ pc' = "returned" ]_vars

\* C8, witness: a finished run whose source ends inside a string literal
\* that spans a newline and follows another token.
C8_Witness ==
    /\ pc = "done"
    /\ UnterminatedDiags # {}
    /\ Len(tokens) >= 2
    /\ line > 1

\* A character of the source that is in none of the recognised classes.
IsUnexpectedChar(c) == InDefaultArm(c) /\ ~is_digit(c) /\ ~is_alpha(c)

\* C9: an unexpected character never stops the pass, and a source with k
\* unexpected characters (here: a source with no quote and no slash, so
\* none of them is inside a string or a comment) gives k diagnostics.
C9_UnexpectedCharacter ==
    /\ UnexpectedDiags # {} => pc # "panic"
    /\ (Returned /\ \A i \in 1..Len(source) : source[i] \notin {"\"", "/"}) =>
        Cardinality(UnexpectedDiags) =
            Cardinality({i \in 1..Len(Chars(source)) :
                            IsUnexpectedChar(Chars(source)[i])})

\* C10: the third field of a token's dump line is "null" exactly when the
\* token is neither a STRING nor a NUMBER, and a STRING literal is the
\* source text between its two quotes.
C10_LiteralField ==
    \A i \in 1..Len(tokens) :
        /\ (LiteralField(tokens[i]) = NullText)
            <=> (tokens[i].token_type \notin {"STRING", "NUMBER"})
        /\ tokens[i].token_type = "STRING" =>
            tokens[i].literal = Slice(source, tokstart[i] + 1, TokenEnd(i) - 1)

\* C11: the dump of a run has one line per token of the returned stream, in
\* stream order, and so exactly one `EOF  null` line, its last.
C11_DumpOneLinePerToken ==
    pc = "done" =>
        /\ Len(out) = Len(tokens)
        /\ \A i \in 1..Len(tokens) : out[i] = to_string(tokens[i])
        /\ Cardinality({i \in 1..Len(out) : out[i] = EofLine}) = 1
        /\ out[Len(out)] = EofLine

RECURSIVE RunEnd(_, _)
RunEnd(src, i) ==
    IF i < Len(src) /\ is_alpha_numeric(ByteAsChar(src[i + 1]))
    THEN RunEnd(src, i + 1)
    ELSE i

\* C13: every alphabetic or underscore character at token start begins the
\* identifier scan, and that scan ends by pushing exactly one token, whose
\* lexeme is the maximal run of word characters from that character on.
C13_IdentifierScan ==
    [][ /\ (AtTokenStart /\ is_alpha(CurrentChar)) =>
            /\ pc' = "identifier"
            /\ start' = current
            /\ tokens' = tokens
        /\ (pc = "identifier" /\ pc' # "identifier") =>
            /\ pc' = "outer"
            /\ Len(tokens') = Len(tokens) + 1
            /\ SubSeq(tokens', 1, Len(tokens)) = tokens
            /\ tokens'[Len(tokens')].lexeme =
                   Slice(source, start, RunEnd(source, start)) ]_vars


\* C14: the line counter starts at 1 and at every point equals 1 plus the
\* number of newlines in source[0, current).
C14_LineCounter ==
    /\ line >= 1
    /\ line = 1 + NewlinesBefore(current)


\* C15: a "//" at token start opens a comment that runs up to, and not over,
\* the next newline or the end of input, pushing no token, reporting no
\* diagnostic and leaving the error flag and the line alone; a '/' not
\* followed by '/' pushes one SLASH token.
C15_LineComment ==
    [][ /\ (AtTokenStart /\ CurrentChar = "/") =>
            IF peek(source, current + 1) = "/"
            THEN /\ pc' = "comment"
                 /\ current' = current + 2
                 /\ tokens' = tokens
                 /\ diags' = diags
                 /\ has_error' = has_error
            ELSE /\ pc' = "outer"
                 /\ current' = current + 1
                 /\ Len(tokens') = Len(tokens) + 1
                 /\ SubSeq(tokens', 1, Len(tokens)) = tokens
                 /\ tokens'[Len(tokens')].token_type = "SLASH"
                 /\ tokens'[Len(tokens')].lexeme = <<"/">>
        /\ pc = "comment" =>
            /\ tokens' = tokens
            /\ diags' = diags
            /\ has_error' = has_error
            /\ line' = line
            /\ IF ~is_at_end(source, current) /\ source[current + 1] # "\n"
               THEN pc' = "comment" /\ current' = current + 1
               ELSE pc' = "outer" /\ current' = current ]_vars


\* C16: has_error is false when the scanner is built, becomes true only in
\* a step that reports an unexpected-character or unterminated-string
\* diagnostic, and never goes back to false; so at every point, and when
\* scan_tokens returns, it is true iff a diagnostic has been reported.
C16_StickyErrorFlag ==
    /\ [](has_error <=> diags # <<>>)
    /\ [][ /\ has_error => has_error'
           /\ (~has_error /\ has_error') =>
                /\ Len(diags') = Len(diags) + 1
                /\ diags'[Len(diags')].msg \in
                       {"Unexpected character", "Unterminated string."}
           /\ Len(diags') > Len(diags) => has_error' ]_vars

\* a finished pass that reported both kinds of diagnostic
C16_Witness ==
    /\ pc = "done"
    /\ has_error
    /\ UnexpectedDiags # {}
    /\ UnterminatedDiags # {}


\* 0 <= start <= current <= length(source)
OffsetsInRange == 0 <= start /\ start <= current /\ current <= Len(source)

\* C17, as stated: the offsets stay in range, and every token appended,
\* the EOF token included, has the lexeme source[start, current) at the
\* moment it is appended.
C17_LexemeIsSlice ==
    [][ /\ OffsetsInRange'
        /\ Len(tokens') = Len(tokens) + 1 =>
             tokens'[Len(tokens')].lexeme = Slice(source, start', current') ]_vars

\* C17, amended: the offsets stay in range in every state; every token
\* appended by scan_token has the lexeme source[start, current) at the
\* moment it is appended, and the EOF token appended by scan_tokens has the
\* empty lexeme whatever start and current are.
C17_LexemeIsSliceExceptEof ==
    /\ []OffsetsInRange
    /\ [][ Len(tokens') = Len(tokens) + 1 =>
             /\ SubSeq(tokens', 1, Len(tokens)) = tokens
             /\ IF pc = "outer" /\ is_at_end(source, current)
                THEN /\ tokens'[Len(tokens')].token_type = "EOF"
                     /\ tokens'[Len(tokens')].lexeme = <<>>
                ELSE /\ tokens'[Len(tokens')].token_type # "EOF"
                     /\ tokens'[Len(tokens')].lexeme =
                            Slice(source, start', current') ]_vars

\* a returned scan whose last scan_token pushed a token of two bytes or
\* more, so that start < current when the EOF token is appended
C17_Witness ==
    /\ Returned
    /\ start < current
    /\ Len(tokens) >= 2
    /\ Len(tokens[Len(tokens) - 1].lexeme) >= 2
    /\ tokens[Len(tokens) - 1].lexeme = Slice(source, start, current)


\* number() has left its loops and is about to parse source[start, current).
NumberParses ==
    \/ /\ pc = "number"
       /\ ~is_digit(peek(source, current))
       /\ ~number_has_fraction(source, current)
    \/ /\ pc = "fraction"
       /\ ~is_digit(peek(source, current))

\* C18: whenever number() parses source[start, current), that text is a
\* slice on character boundaries made of digits, or of digits, '.' and
\* digits, so the parse succeeds; the step pushes a NUMBER token with that
\* lexeme and does not abort.
C18_NumberParseSucceeds ==
    /\ [](NumberParses =>
            /\ SliceOk(source, start, current)
            /\ NumberShape(Slice(source, start, current))
            /\ ParseOk(Slice(source, start, current)))
    /\ [][ NumberParses =>
            /\ pc' = "outer"
            /\ Len(tokens') = Len(tokens) + 1
            /\ SubSeq(tokens', 1, Len(tokens)) = tokens
            /\ tokens'[Len(tokens')].token_type = "NUMBER"
            /\ tokens'[Len(tokens')].lexeme = Slice(source, start, current) ]_vars

\* number() has just parsed a text with a fractional part and pushed its
\* NUMBER token
C18_Witness ==
    /\ pc = "outer"
    /\ Len(tokens) >= 1
    /\ tokens[Len(tokens)].token_type = "NUMBER"
    /\ tokens[Len(tokens)].lexeme = Slice(source, start, current)
    /\ DotAt(tokens[Len(tokens)].lexeme) > 0

\* Byte p (counted from 1) lies in a line comment: a "//" starts at or
\* before it with no newline in between.
InLineComment(p) ==
    \E q \in 1..p :
        /\ q < Len(source)
        /\ source[q] = "/"
        /\ source[q + 1] = "/"
        /\ \A r \in q..p : source[r] # "\n"

\* The non-EOF tokens whose lexeme holds byte p.
TokensOver(p) ==
    {i \in 1..(Len(tokens) - 1) : tokstart[i] < p /\ p <= TokenEnd(i)}

\* C19: when scan_tokens returns with has_error false, the non-EOF tokens'
\* lexemes are slices of the source, disjoint and in increasing order, and
\* every byte that is not a blank, a newline or part of a line comment lies
\* in exactly one of them.
C19_Coverage ==
    (Returned /\ ~has_error) =>
        /\ \A i \in 1..(Len(tokens) - 1) :
            /\ TokenEnd(i) <= Len(source)
            /\ tokens[i].lexeme = Slice(source, tokstart[i], TokenEnd(i))
            /\ i > 1 => TokenEnd(i - 1) <= tokstart[i]
        /\ \A p \in 1..Len(source) :
            \/ Cardinality(TokensOver(p)) = 1
            \/ /\ TokensOver(p) = {}
               /\ \/ source[p] \in BlankChars \cup {"\n"}
                  \/ InLineComment(p)


\* C20: after every Lox::run call, had_error is true iff the scan of that
\* call's own source reported a lexical error, whatever the earlier calls
\* scanned.
C20_NoCrossCallState ==
    pc = "done" =>
        (had_error <=> history[Len(history)].has_error)

====
